---- MODULE Spec2Model ----
(***************************************************************************)
(* The widget context bridge of packages/react/src/useWidget.ts:           *)
(* useOpenAiGlobal, useWidget and useWidgetState, run against a host that  *)
(* owns window.openai and broadcasts "openai:set_globals" events.          *)
(***************************************************************************)
EXTENDS Integers, Sequences, FiniteSets, TLC

(***************************************************************************)
(* JavaScript values                                                       *)
(***************************************************************************)
Undefined == [type |-> "undefined"]
Null == [type |-> "null"]
Num(n) == [type |-> "number", val |-> n]
Str(s) == [type |-> "string", str |-> s]
Obj(f) == [type |-> "object", props |-> f]
EmptyArray == [type |-> "array"]

\* a ?? b
Coalesce(a, b) == IF a = Undefined \/ a = Null THEN b ELSE a

(***************************************************************************)
(* Bounds                                                                  *)
(***************************************************************************)
\* largest number a widget state holds
MaxNum == 6
\* host promises in flight at one time
MaxInflight == 1
\* steps the host takes on its own (field assignments, broadcasts)
MaxHostSteps == 2
\* field names one broadcast announces
MaxEventKeys == 1

(***************************************************************************)
(* The host global and its fields                                          *)
(***************************************************************************)
Keys == {"toolInput", "widgetState", "theme", "displayMode", "locale"}
Actions == {"callTool", "sendFollowUpMessage", "openExternal", "requestDisplayMode"}
Methods == Actions \cup {"setWidgetState"}

EmptyMapping == [k \in {} |-> ""]
PartialInput == [city |-> "Paris"]
FullInput == [city |-> "Paris", temperature |-> "22", weather |-> "sunny"]
WeatherDefaults == [city |-> "Unknown", temperature |-> "0", weather |-> "cloudy"]

Theme == {Str("light"), Str("dark")}
DisplayMode == {Str("pip"), Str("inline"), Str("fullscreen")}

FieldValues(k) ==
  CASE k = "toolInput" -> {Undefined, Null, Obj(PartialInput), Obj(FullInput)}
    [] k = "widgetState" -> {Undefined, Num(5)}
    [] k = "theme" -> {Undefined} \cup Theme
    [] k = "displayMode" -> {Undefined, Str("fullscreen")}
    [] k = "locale" -> {Undefined, Str("fr")}

\* the method sets a host exposes
MethodSets ==
  {{}, Methods, {"callTool", "openExternal"},
   {"sendFollowUpMessage", "requestDisplayMode", "setWidgetState"}}

\* the hosts a widget is loaded into
InitialGlobals ==
  {g \in [Keys -> UNION {FieldValues(k) : k \in Keys}] :
     /\ \A k \in Keys : g[k] \in FieldValues(k)
     /\ \/ g.toolInput = Undefined /\ g.theme = Undefined
        \/ g.toolInput = Obj(FullInput) /\ g.theme = Str("dark")
     /\ g.displayMode = Undefined
     /\ g.locale = Undefined}

\* the hook a component uses and the default it passes
Components ==
  {[hook |-> "useWidget", defaultProps |-> Undefined, defaultState |-> Undefined],
   [hook |-> "useWidget", defaultProps |-> Obj(WeatherDefaults), defaultState |-> Undefined],
   [hook |-> "useWidgetState", defaultProps |-> Undefined, defaultState |-> EmptyArray]}

VARIABLES
  openai,      \* window.openai: Undefined or a WindowOpenAI
  component,   \* the hook the component calls and its default argument
  mounted,     \* the component is mounted
  snap,        \* the snapshot each useOpenAiGlobal returned at the last render
  view,        \* the UseWidgetResult of the last render
  localState,  \* the React state cell behind useState (latest queued value)
  dirty,       \* a store change was observed: a re-render is scheduled
  listeners,   \* the "openai:set_globals" listeners registered on window
  gen,         \* names the handleSetGlobal closures of the last render
  removed,     \* listeners that were passed to removeEventListener
  inflight,    \* host promises not settled yet
  hostSteps,   \* steps the host took so far
  lastOp,      \* the last operation, its outcome and the host calls it made
  loading,     \* WeatherWidget: useState(false)
  forecast,    \* WeatherWidget: useState<string | null>(null)
  props,       \* inline counter: window.openai?.toolInput || { initialCount: 0 }
  count,       \* inline counter: let count
  countEl,     \* inline counter: textContent of <div id="count">
  ups,         \* clicks on +1 since the page loaded or was last reset
  downs,       \* clicks on -1 since the page loaded or was last reset
  sessionId,   \* test client: let sessionId: string | null
  fetches,     \* test client: requests sent whose fetch has not returned
  sibling,     \* a second component that calls useWidget is mounted
  siblingGen   \* names the handleSetGlobal closures of its last render

\* the state of the example programs built on the bridge
widgetVars == <<loading, forecast>>
counterVars == <<props, count, countEl, ups, downs>>
clientVars == <<sessionId, fetches>>
instanceVars == <<sibling, siblingGen>>
exampleVars == <<widgetVars, counterVars, clientVars, instanceVars>>

vars == <<openai, component, mounted, snap, view, localState, dirty,
          listeners, gen, removed, inflight, hostSteps, lastOp, exampleVars>>

NoError == [error |-> "none", api |-> ""]
\* new Error("window.openai.<api> is not available")
HostUnavailable(api) == [error |-> "HostUnavailable", api |-> api]
HostFailure == [error |-> "HostFailure", api |-> ""]

\* op(arg) ended in outcome (with error, or with value), called the host as
\* listed in calls and invoked the onChange callbacks of the listeners invoked
Op(op, arg, outcome, error, value, calls, invoked) ==
  [op |-> op, arg |-> arg, outcome |-> outcome, error |-> error, value |-> value,
   calls |-> calls, invoked |-> invoked]

\* window.openai?.<m> is truthy
HasMethod(w, m) == w # Undefined /\ m \in w.methods

(***************************************************************************)
(* useOpenAiGlobal                                                         *)
(***************************************************************************)
\* the value handleSetGlobal reads: event.detail?.globals[key]
DetailValue(detail, key) ==
  IF key \in DOMAIN detail THEN detail[key] ELSE Undefined

\* handleSetGlobal without the filter on its own key
handleSetGlobalAnyKey(key, detail) ==
  \E k \in DOMAIN detail : detail[k] # Undefined

\* handleSetGlobal that skips a value equal to the rendered one
handleSetGlobalDedup(key, detail) ==
  /\ DetailValue(detail, key) # Undefined
  /\ DetailValue(detail, key) # snap[key]

\* handleSetGlobal that lets nothing through right after another notification
handleSetGlobalThrottled(key, detail) ==
  /\ DetailValue(detail, key) # Undefined
  /\ lastOp.op # "dispatchEvent"

\* handleSetGlobal that ignores the host while one of its promises is open
handleSetGlobalIdle(key, detail) ==
  /\ DetailValue(detail, key) # Undefined
  /\ inflight = <<>>

\* handleSetGlobal(event) calls onChange
handleSetGlobal(key, detail) == DetailValue(detail, key) # Undefined

\* () => window.openai ? window.openai[key] : undefined
getSnapshot(w, key) == IF w # Undefined THEN w.globals[key] ELSE Undefined

Handler(key, g) == [key |-> key, gen |-> g]

\* window.addEventListener(SET_GLOBALS_EVENT_TYPE, handleSetGlobal)
subscribe(ls, h) == ls \cup {h}

\* removeEventListener handed a function that was never registered
unsubscribeOther(ls, h) == ls

\* a cleanup that leaves the locale listener registered
unsubscribeKeepsLocale(ls, h) == IF h.key = "locale" THEN ls ELSE ls \ {h}

\* window.removeEventListener(SET_GLOBALS_EVENT_TYPE, handleSetGlobal)
unsubscribe(ls, h) == ls \ {h}

RECURSIVE subscribeAll(_, _)
subscribeAll(ls, hs) ==
  IF hs = {} THEN ls
  ELSE LET h == CHOOSE x \in hs : TRUE
       IN subscribeAll(subscribe(ls, h), hs \ {h})

RECURSIVE unsubscribeAll(_, _)
unsubscribeAll(ls, hs) ==
  IF hs = {} THEN ls
  ELSE LET h == CHOOSE x \in hs : TRUE
       IN unsubscribeAll(unsubscribe(ls, h), hs \ {h})

HandlersOf(g) == {Handler(k, g) : k \in Keys}

(***************************************************************************)
(* useWidget: the value a render returns                                   *)
(***************************************************************************)
\* props that fill the keys toolInput lacks from defaultProps
PropsMerged(toolInput, defaultProps) ==
  IF toolInput.type = "object" /\ defaultProps.type = "object"
  THEN Obj(toolInput.props @@ defaultProps.props)
  ELSE Coalesce(toolInput, Coalesce(defaultProps, Obj(EmptyMapping)))

\* props: (toolInput ?? defaultProps ?? {})
Props(toolInput, defaultProps) ==
  Coalesce(toolInput, Coalesce(defaultProps, Obj(EmptyMapping)))

\* the result without the fallback of theme
UseWidgetResultNoFallback(s, defaultProps, state, w) ==
  [props |-> Props(s.toolInput, defaultProps),
   theme |-> s.theme,
   displayMode |-> Coalesce(s.displayMode, Str("inline")),
   locale |-> Coalesce(s.locale, Str("en")),
   state |-> state,
   isAvailable |-> (w # Undefined)]

\* the result with isAvailable standing for "the host can be called"
UseWidgetResultNeedsMethods(s, defaultProps, state, w) ==
  [props |-> Props(s.toolInput, defaultProps),
   theme |-> Coalesce(s.theme, Str("light")),
   displayMode |-> Coalesce(s.displayMode, Str("inline")),
   locale |-> Coalesce(s.locale, Str("en")),
   state |-> state,
   isAvailable |-> (w # Undefined /\ w.methods # {})]

\* the result that takes the host's three fields together or not at all
UseWidgetResultAllOrNothing(s, defaultProps, state, w) ==
  LET all == s.theme # Undefined /\ s.displayMode # Undefined /\ s.locale # Undefined
  IN [props |-> Props(s.toolInput, defaultProps),
      theme |-> IF all THEN s.theme ELSE Str("light"),
      displayMode |-> IF all THEN s.displayMode ELSE Str("inline"),
      locale |-> IF all THEN s.locale ELSE Str("en"),
      state |-> state,
      isAvailable |-> (w # Undefined)]

UseWidgetResult(s, defaultProps, state, w) ==
  [props |-> Props(s.toolInput, defaultProps),
   theme |-> Coalesce(s.theme, Str("light")),
   displayMode |-> Coalesce(s.displayMode, Str("inline")),
   locale |-> Coalesce(s.locale, Str("en")),
   state |-> state,
   isAvailable |-> (w # Undefined)]

NoView == [props |-> Undefined, theme |-> Undefined, displayMode |-> Undefined,
           locale |-> Undefined, state |-> Undefined, isAvailable |-> FALSE]
NoSnap == [k \in Keys |-> Undefined]

(***************************************************************************)
(* Init                                                                    *)
(***************************************************************************)
\* digits of a number written out, as String(n) gives them
DigitChars == <<"0", "1", "2", "3", "4", "5", "6", "7", "8", "9">>

RECURSIVE Digits(_)
Digits(n) ==
  IF n < 10 THEN <<DigitChars[n + 1]>>
  ELSE Append(Digits(n \div 10), DigitChars[(n % 10) + 1])

\* String(n), what an assignment to textContent stores
NumberToString(n) == IF n < 0 THEN <<"-">> \o Digits(0 - n) ELSE Digits(n)

\* window.openai?.toolInput || { initialCount: 0 }
CounterProps(toolInput) ==
  IF toolInput = Undefined \/ toolInput = Null
  THEN Obj([initialCount |-> 0])
  ELSE toolInput

\* a reset that forgets the initial count
InitialCountZero(p) == 0

\* props.initialCount || 0
InitialCount(p) ==
  IF "initialCount" \in DOMAIN p.props /\ p.props.initialCount # 0
  THEN p.props.initialCount
  ELSE 0

\* the bridge before its component is mounted
InitBridge ==
  /\ openai \in {Undefined} \cup
                 {[globals |-> g, methods |-> m] : g \in InitialGlobals, m \in MethodSets}
  /\ component \in Components
  /\ mounted = FALSE
  /\ snap = NoSnap
  /\ view = NoView
  /\ localState = Null
  /\ dirty = FALSE
  /\ listeners = {}
  /\ gen = 0
  /\ removed = {}
  /\ inflight = <<>>
  /\ hostSteps = 0
  /\ lastOp = Op("load", Undefined, "returned", NoError, Undefined, <<>>, {})

\* the example programs as they start without a tool input
InitExamples ==
  /\ loading = FALSE
  /\ forecast = Null
  /\ props = CounterProps(Undefined)
  /\ count = InitialCount(props)
  /\ countEl = NumberToString(count)
  /\ ups = 0
  /\ downs = 0
  /\ sessionId = Null
  /\ fetches = <<>>
  /\ sibling = FALSE
  /\ siblingGen = 2

Init == InitBridge /\ InitExamples

(***************************************************************************)
(* The actions of useWidget.  Each operator takes what the caller passes,  *)
(* then window.openai and the React state cell as they are at the call,    *)
(* and returns the outcome of the call, the host calls made, the promise   *)
(* left pending at the host and the React state cell afterwards.           *)
(***************************************************************************)
\* a call of a host method; mirror is the React state cell when it is made
HostCall(method, arg, mirror) == [method |-> method, arg |-> arg, mirror |-> mirror]

\* a promise the host returned and the state of the promise the caller holds
Pending(method, arg, caller) == [method |-> method, arg |-> arg, caller |-> caller]

Result(outcome, error, calls, pending, cell) ==
  [outcome |-> outcome, error |-> error, calls |-> calls, pending |-> pending,
   localState |-> cell]

\* callTool that trusts the isAvailable of the last render
callToolIfAvailable(name, args, w, cell) ==
  IF ~view.isAvailable \/ ~HasMethod(w, "callTool")
  THEN Result("rejected", HostUnavailable("callTool"), <<>>, <<>>, cell)
  ELSE LET a == [name |-> name, args |-> args]
       IN Result("pending", NoError, <<HostCall("callTool", a, cell)>>,
                 <<Pending("callTool", a, "pending")>>, cell)

callTool(name, args, w, cell) ==
  IF ~HasMethod(w, "callTool")
  THEN Result("rejected", HostUnavailable("callTool"), <<>>, <<>>, cell)
  ELSE LET a == [name |-> name, args |-> args]
       IN Result("pending", NoError, <<HostCall("callTool", a, cell)>>,
                 <<Pending("callTool", a, "pending")>>, cell)

\* sendFollowUpMessage that keeps the prompt it sent in the widget state
sendFollowUpMessageKeepsPrompt(prompt, w, cell) ==
  IF ~HasMethod(w, "sendFollowUpMessage")
  THEN Result("rejected", HostUnavailable("sendFollowUpMessage"), <<>>, <<>>, cell)
  ELSE LET a == [prompt |-> prompt]
       IN Result("pending", NoError, <<HostCall("sendFollowUpMessage", a, cell)>>,
                 <<Pending("sendFollowUpMessage", a, "pending")>>, Obj(a))

sendFollowUpMessage(prompt, w, cell) ==
  IF ~HasMethod(w, "sendFollowUpMessage")
  THEN Result("rejected", HostUnavailable("sendFollowUpMessage"), <<>>, <<>>, cell)
  ELSE LET a == [prompt |-> prompt]
       IN Result("pending", NoError, <<HostCall("sendFollowUpMessage", a, cell)>>,
                 <<Pending("sendFollowUpMessage", a, "pending")>>, cell)

\* openExternal declared async like the other actions
openExternalAsync(href, w, cell) ==
  IF ~HasMethod(w, "openExternal")
  THEN Result("rejected", HostUnavailable("openExternal"), <<>>, <<>>, cell)
  ELSE Result("returned", NoError, <<HostCall("openExternal", [href |-> href], cell)>>,
              <<>>, cell)

openExternal(href, w, cell) ==
  IF ~HasMethod(w, "openExternal")
  THEN Result("throws", HostUnavailable("openExternal"), <<>>, <<>>, cell)
  ELSE Result("returned", NoError, <<HostCall("openExternal", [href |-> href], cell)>>,
              <<>>, cell)

\* requestDisplayMode that tests window.openai only
requestDisplayModeHostOnly(mode, w, cell) ==
  IF w = Undefined
  THEN Result("rejected", HostUnavailable("requestDisplayMode"), <<>>, <<>>, cell)
  ELSE LET a == [mode |-> mode]
       IN Result("pending", NoError, <<HostCall("requestDisplayMode", a, cell)>>,
                 <<Pending("requestDisplayMode", a, "pending")>>, cell)

requestDisplayMode(mode, w, cell) ==
  IF ~HasMethod(w, "requestDisplayMode")
  THEN Result("rejected", HostUnavailable("requestDisplayMode"), <<>>, <<>>, cell)
  ELSE LET a == [mode |-> mode]
       IN Result("pending", NoError, <<HostCall("requestDisplayMode", a, cell)>>,
                 <<Pending("requestDisplayMode", a, "pending")>>, cell)

\* what setState accepts: a replacement value, or the function prev => prev + 1
Value(v) == [kind |-> "value", value |-> v]
Updater == [kind |-> "function", value |-> Undefined]

\* prev + 1 in JavaScript: null + 1 is 1
Increment(prev) == IF prev = Null THEN Num(1) ELSE Num(prev.val + 1)

\* setState that calls the host without returning its promise
setStateNoReturn(stateOrUpdater, closure, w, cell) ==
  LET newState == IF stateOrUpdater.kind = "function"
                  THEN Increment(closure)
                  ELSE stateOrUpdater.value
  IN IF ~HasMethod(w, "setWidgetState")
     THEN Result("fulfilled", NoError, <<>>, <<>>, newState)
     ELSE Result("fulfilled", NoError,
                 <<HostCall("setWidgetState", newState, newState)>>,
                 <<Pending("setWidgetState", newState, "fulfilled")>>, newState)

\* setState that fails like the other actions when the host method is absent
setStateThrows(stateOrUpdater, closure, w, cell) ==
  LET newState == IF stateOrUpdater.kind = "function"
                  THEN Increment(closure)
                  ELSE stateOrUpdater.value
  IN IF ~HasMethod(w, "setWidgetState")
     THEN Result("rejected", HostUnavailable("setWidgetState"), <<>>, <<>>, cell)
     ELSE Result("pending", NoError,
                 <<HostCall("setWidgetState", newState, newState)>>,
                 <<Pending("setWidgetState", newState, "pending")>>, newState)

\* setState; closure is the localState the render that made this callback saw
setState(stateOrUpdater, closure, w, cell) ==
  LET newState == IF stateOrUpdater.kind = "function"
                  THEN Increment(closure)
                  ELSE stateOrUpdater.value
  IN IF ~HasMethod(w, "setWidgetState")
     THEN Result("fulfilled", NoError, <<>>, <<>>, newState)
     ELSE Result("pending", NoError,
                 <<HostCall("setWidgetState", newState, newState)>>,
                 <<Pending("setWidgetState", newState, "pending")>>, newState)

(***************************************************************************)
(* Rendering                                                               *)
(***************************************************************************)
\* a snapshot that takes a field from the payload of the notification just handled
SnapshotFromEvent(w) ==
  [k \in Keys |-> IF lastOp.op = "dispatchEvent" /\ k \in DOMAIN lastOp.arg
                  THEN lastOp.arg[k]
                  ELSE getSnapshot(w, k)]

Snapshot(w) == [k \in Keys |-> getSnapshot(w, k)]

\* a hook without the effect that copies the host's widgetState
SyncEffectNever(widgetState, cell) == cell

\* an effect that copies whatever the host has, undefined as null
SyncEffectReset(widgetState, cell) ==
  IF widgetState # Undefined THEN widgetState ELSE Null

\* the effect of useWidget: if (widgetState !== undefined) setLocalState(widgetState)
SyncEffect(widgetState, cell) ==
  IF widgetState # Undefined THEN widgetState ELSE cell

\* the effect of useWidgetState without the test for window.openai?.setWidgetState
InitialisesDefaultAnyHost(c, state, w) ==
  /\ c.hook = "useWidgetState"
  /\ state = Null
  /\ c.defaultState # Undefined

\* the effect of useWidgetState runs setState(defaultState)
InitialisesDefault(c, state, w) ==
  /\ c.hook = "useWidgetState"
  /\ state = Null
  /\ c.defaultState # Undefined
  /\ HasMethod(w, "setWidgetState")

\* React runs an effect after the first render, and after a later render when
\* one of its dependencies changed
EffectRuns(first, deps, prevDeps) == first \/ deps # prevDeps

\* }, [widgetState]) of the effect of useWidget
SyncDeps(s) == <<s.widgetState>>

\* }, []) of the effect of useWidgetState
InitDeps(s) == <<>>

\* the effects when the effect of useWidgetState has no dependency list
CommitEveryRender(first, c, s, prevSnap, state, w, cell) ==
  LET synced == IF EffectRuns(first, SyncDeps(s), SyncDeps(prevSnap))
                THEN SyncEffect(s.widgetState, cell)
                ELSE cell
  IN IF InitialisesDefault(c, state, w)
     THEN setState(Value(c.defaultState), state, w, synced)
     ELSE Result("returned", NoError, <<>>, <<>>, synced)

\* the effects after a render that returned state, in the order of the hooks
Commit(first, c, s, prevSnap, state, w, cell) ==
  LET synced == IF EffectRuns(first, SyncDeps(s), SyncDeps(prevSnap))
                THEN SyncEffect(s.widgetState, cell)
                ELSE cell
  IN IF /\ EffectRuns(first, InitDeps(s), InitDeps(prevSnap))
        /\ InitialisesDefault(c, state, w)
     THEN setState(Value(c.defaultState), state, w, synced)
     ELSE Result("returned", NoError, <<>>, <<>>, synced)

\* first render: useState(widgetState ?? null), subscriptions, effects
Mount ==
  /\ ~mounted
  /\ lastOp.op = "load"
  /\ LET s == Snapshot(openai)
         state == Coalesce(s.widgetState, Null)
         r == Commit(TRUE, component, s, snap, state, openai, state)
     IN /\ snap' = s
        /\ view' = UseWidgetResult(s, component.defaultProps, state, openai)
        /\ listeners' = subscribeAll(listeners, HandlersOf(1 - gen))
        /\ removed' = removed \ HandlersOf(1 - gen)
        /\ localState' = r.localState
        /\ inflight' = inflight \o r.pending
        /\ lastOp' = Op("mount", component, "returned", NoError, Undefined, r.calls, {})
  /\ mounted' = TRUE
  /\ gen' = 1 - gen
  /\ dirty' = FALSE
  /\ UNCHANGED <<exampleVars, openai, component, hostSteps>>

\* a re-render: every hook runs again; useSyncExternalStore is handed a new
\* subscribe function, so it unsubscribes the old handlers and subscribes new ones
Render ==
  /\ mounted
  /\ dirty \/ localState # view.state
  /\ LET s == Snapshot(openai)
         r == Commit(FALSE, component, s, snap, localState, openai, localState)
     IN /\ Len(inflight) + Len(r.pending) <= MaxInflight
        /\ snap' = s
        /\ view' = UseWidgetResult(s, component.defaultProps, localState, openai)
        /\ listeners' = subscribeAll(unsubscribeAll(listeners, HandlersOf(gen)),
                                     HandlersOf(1 - gen))
        /\ removed' = (removed \cup HandlersOf(gen)) \ HandlersOf(1 - gen)
        /\ localState' = r.localState
        /\ inflight' = inflight \o r.pending
        /\ lastOp' = Op("render", Undefined, "returned", NoError, Undefined, r.calls, {})
  /\ gen' = 1 - gen
  /\ dirty' = FALSE
  /\ UNCHANGED <<exampleVars, openai, component, mounted, hostSteps>>

Unmount ==
  /\ mounted
  /\ mounted' = FALSE
  /\ listeners' = unsubscribeAll(listeners, HandlersOf(gen))
  /\ removed' = removed \cup HandlersOf(gen)
  /\ snap' = NoSnap
  /\ view' = NoView
  /\ localState' = Null
  /\ dirty' = FALSE
  /\ lastOp' = Op("unmount", Undefined, "returned", NoError, Undefined, <<>>, {})
  /\ UNCHANGED <<exampleVars, openai, component, gen, inflight, hostSteps>>

(***************************************************************************)
(* The component calls the actions of the last render's result             *)
(***************************************************************************)
\* a setState that stores the new state in window.openai.widgetState itself
InvokeWritesHost(op, arg, r) ==
  /\ mounted
  /\ Len(inflight) + Len(r.pending) <= MaxInflight
  /\ localState' = r.localState
  /\ inflight' = inflight \o r.pending
  /\ lastOp' = Op(op, arg, r.outcome, r.error, Undefined, r.calls, {})
  /\ openai' = IF op = "setState" /\ openai # Undefined
               THEN [openai EXCEPT !.globals["widgetState"] = r.localState]
               ELSE openai
  /\ UNCHANGED <<exampleVars, component, mounted, snap, view, dirty, listeners, gen,
                 removed, hostSteps>>

Invoke(op, arg, r) ==
  /\ mounted
  /\ Len(inflight) + Len(r.pending) <= MaxInflight
  /\ localState' = r.localState
  /\ inflight' = inflight \o r.pending
  /\ lastOp' = Op(op, arg, r.outcome, r.error, Undefined, r.calls, {})
  /\ UNCHANGED <<exampleVars, openai, component, mounted, snap, view, dirty, listeners, gen,
                 removed, hostSteps>>

CallTool ==
  \E a \in {[name |-> "get-forecast", args |-> Obj(PartialInput)]} :
    Invoke("callTool", a, callTool(a.name, a.args, openai, localState))

SendFollowUpMessage ==
  \E prompt \in {"Tell me more"} :
    Invoke("sendFollowUpMessage", prompt, sendFollowUpMessage(prompt, openai, localState))

OpenExternal ==
  \E href \in {"https://example.com"} :
    Invoke("openExternal", href, openExternal(href, openai, localState))

RequestDisplayMode ==
  \E mode \in {Str("fullscreen")} :
    Invoke("requestDisplayMode", mode, requestDisplayMode(mode, openai, localState))

\* the updater prev => prev + 1 is written for a numeric state
Applicable(a, closure) ==
  a.kind = "function" =>
    \/ closure = Null
    \/ closure.type = "number" /\ closure.val < MaxNum

SetState ==
  \E a \in {Value(Num(5)), Value(Null), Updater} :
    /\ mounted
    /\ Applicable(a, view.state)
    /\ Invoke("setState", a, setState(a, view.state, openai, localState))

(***************************************************************************)
(* The host                                                                *)
(***************************************************************************)
\* the host acts on its own once the widget has been mounted
HostStep ==
  /\ lastOp.op # "load"
  /\ hostSteps < MaxHostSteps
  /\ hostSteps' = hostSteps + 1

\* event.detail.globals of a broadcast: some field names with their new values
Details ==
  UNION {{d \in [S -> UNION {FieldValues(k) : k \in Keys}] :
            \A k \in S : d[k] \in FieldValues(k)} :
         S \in {T \in SUBSET Keys : Cardinality(T) <= MaxEventKeys}}

\* window.dispatchEvent(new CustomEvent("openai:set_globals", {detail: {globals}}))
\* every registered handleSetGlobal runs; onChange makes React compare the
\* snapshot with the rendered one and schedule a re-render when they differ
HostDispatchOf(details) ==
  \E detail \in details :
    /\ HostStep
    /\ LET invoked == {h \in listeners : handleSetGlobal(h.key, detail)}
       IN /\ dirty' = (dirty \/ \E h \in invoked :
                                  getSnapshot(openai, h.key) # snap[h.key])
          /\ lastOp' = Op("dispatchEvent", detail, "returned", NoError, Undefined,
                          <<>>, invoked)
    /\ UNCHANGED <<exampleVars, openai, component, mounted, snap, view, localState, listeners,
                   gen, removed, inflight>>

HostDispatch == HostDispatchOf(Details)

\* the host assigns one of the fields in keys of window.openai
HostAssignIn(keys) ==
  \E k \in keys : \E v \in FieldValues(k) :
    /\ HostStep
    /\ openai # Undefined
    /\ openai.globals[k] # v
    /\ openai' = [openai EXCEPT !.globals[k] = v]
    /\ lastOp' = Op("host", Undefined, "returned", NoError, Undefined, <<>>, {})
    /\ UNCHANGED <<exampleVars, component, mounted, snap, view, localState, dirty, listeners,
                   gen, removed, inflight>>

HostAssign == HostAssignIn(Keys)

\* window.openai appears, or is replaced by an object with other methods
HostInstall ==
  \E m \in MethodSets :
    /\ HostStep
    /\ openai # Undefined => m # openai.methods
    /\ openai' = [globals |-> IF openai = Undefined THEN NoSnap ELSE openai.globals,
                  methods |-> m]
    /\ lastOp' = Op("host", Undefined, "returned", NoError, Undefined, <<>>, {})
    /\ UNCHANGED <<exampleVars, component, mounted, snap, view, localState, dirty, listeners,
                   gen, removed, inflight>>

\* delete window.openai
HostDelete ==
  /\ HostStep
  /\ openai # Undefined
  /\ openai' = Undefined
  /\ lastOp' = Op("host", Undefined, "returned", NoError, Undefined, <<>>, {})
  /\ UNCHANGED <<exampleVars, component, mounted, snap, view, localState, dirty, listeners,
                 gen, removed, inflight>>

ToolResponse == Obj([content |-> "forecast"])

\* what the host may resolve a promise with
Resolutions(p) ==
  CASE p.method = "callTool" -> {ToolResponse}
    [] p.method = "requestDisplayMode" -> {[mode |-> p.arg.mode], [mode |-> Str("inline")]}
    [] OTHER -> {Undefined}

\* the promise an async action returned follows the host promise it returned
Adopt(caller, hostOutcome) == IF caller = "pending" THEN hostOutcome ELSE caller

RemoveAt(q, i) == [j \in 1..(Len(q) - 1) |-> IF j < i THEN q[j] ELSE q[j + 1]]

\* an awaited host promise that is caught and re-thrown as HostUnavailable
ObserveWrapped(p, hostOutcome, hostError, hostValue, cell) ==
  [outcome |-> Adopt(p.caller, hostOutcome),
   error |-> IF hostOutcome = "rejected" THEN HostUnavailable(p.method) ELSE hostError,
   value |-> hostValue,
   localState |-> cell]

\* a rejected write that takes the optimistic value back
ObserveRollback(p, hostOutcome, hostError, hostValue, cell) ==
  [outcome |-> Adopt(p.caller, hostOutcome),
   error |-> hostError,
   value |-> hostValue,
   localState |-> IF p.method = "setWidgetState" /\ hostOutcome = "rejected"
                  THEN Null ELSE cell]

\* a granted display mode forced to the requested one
ObserveCoerced(p, hostOutcome, hostError, hostValue, cell) ==
  [outcome |-> Adopt(p.caller, hostOutcome),
   error |-> hostError,
   value |-> IF p.method = "requestDisplayMode" /\ hostOutcome = "fulfilled"
             THEN [mode |-> p.arg.mode] ELSE hostValue,
   localState |-> cell]

\* what the caller of an action sees when the host promise it was handed
\* settles, and the React state cell afterwards: return window.openai.<m>(...)
Observe(p, hostOutcome, hostError, hostValue, cell) ==
  [outcome |-> Adopt(p.caller, hostOutcome),
   error |-> hostError,
   value |-> hostValue,
   localState |-> cell]

\* the host settles the i-th promise it returned, as o and with v
Settles(i, o, v) ==
  LET p == inflight[i]
      e == IF o = "rejected" THEN HostFailure ELSE NoError
      r == Observe(p, o, e, v, localState)
  IN /\ inflight' = RemoveAt(inflight, i)
     /\ localState' = r.localState
     /\ lastOp' = Op("settle", [call |-> p, host |-> o, error |-> e, value |-> v],
                     r.outcome, r.error, r.value, <<>>, {})
     /\ UNCHANGED <<openai, component, mounted, snap, view,
                    listeners, gen, removed, hostSteps>>

\* the host settles a promise it returned
HostSettle ==
  \E i \in 1..Len(inflight) : \E o \in {"fulfilled", "rejected"} :
    \E v \in (IF o = "fulfilled" THEN Resolutions(inflight[i]) ELSE {Undefined}) :
      /\ Settles(i, o, v)
      /\ UNCHANGED <<dirty, exampleVars>>

(***************************************************************************)
(* WeatherWidget, the example component built on useWidget                 *)
(***************************************************************************)
\* host promises the widget has open at one time
MaxForecastCalls == 2

\* useWidget<WeatherProps>({city: "Unknown", temperature: 0, weather: "cloudy"})
WeatherComponent ==
  [hook |-> "useWidget", defaultProps |-> Obj(WeatherDefaults),
   defaultState |-> Undefined]

\* the component with a forecast button that is never disabled
WeatherWidgetNeverDisabled(v, isLoading, text) ==
  [props |-> v.props,
   actions |-> v.isAvailable,
   disabled |-> FALSE,
   forecast |-> IF text # Null THEN text ELSE Undefined,
   notice |-> ~v.isAvailable]

\* what the component returns: the card, the two buttons under
\* {isAvailable && ...}, the forecast under {forecast && ...} and the notice
\* under {!isAvailable && ...}
WeatherWidget(v, isLoading, text) ==
  [props |-> v.props,
   actions |-> v.isAvailable,
   disabled |-> isLoading,
   forecast |-> IF text # Null THEN text ELSE Undefined,
   notice |-> ~v.isAvailable]

\* props.city
City(v) ==
  IF "city" \in DOMAIN v.props.props THEN v.props.props.city ELSE "undefined"

ErrorFetching == Str("Error fetching forecast")
NoForecast == Str("No forecast available")

\* result.content.find((c) => c.type === "text")?.text || "No forecast available"
ForecastText(result) ==
  LET texts == SelectSeq(result.props.content, LAMBDA c : c.type = "text")
  IN IF texts # <<>> /\ texts[1].text # "" THEN Str(texts[1].text) ELSE NoForecast

\* CallToolResponse values a host resolves get-forecast with
ForecastResponses ==
  {Obj([content |-> <<[type |-> "text", text |-> "Sunny all week"]>>]),
   Obj([content |-> <<[type |-> "text", text |-> ""]>>]),
   Obj([content |-> <<[type |-> "resource_link", text |-> "ui://forecast"]>>])}

\* handleFetchForecast up to its await: the alert, or setLoading(true) and the
\* call; a call that fails at once is caught at once
handleFetchForecast(v, w, cell, isLoading, text) ==
  IF ~v.isAvailable
  THEN [alert |-> TRUE, loading |-> isLoading, forecast |-> text,
        r |-> Result("returned", NoError, <<>>, <<>>, cell)]
  ELSE LET r == callTool("get-forecast", Obj([city |-> City(v), days |-> "7"]), w, cell)
       IN IF r.outcome = "rejected"
          THEN [alert |-> FALSE, loading |-> FALSE, forecast |-> ErrorFetching, r |-> r]
          ELSE [alert |-> FALSE, loading |-> TRUE, forecast |-> text, r |-> r]

\* handleFetchForecast after its await: try, catch and finally
AfterForecast(outcome, result) ==
  [loading |-> FALSE,
   forecast |-> IF outcome = "fulfilled" THEN ForecastText(result) ELSE ErrorFetching]

\* handleAskMore
handleAskMore(v, w, cell) ==
  IF ~v.isAvailable
  THEN [alert |-> TRUE, r |-> Result("returned", NoError, <<>>, <<>>, cell)]
  ELSE [alert |-> FALSE,
        r |-> sendFollowUpMessage(<<"Tell me more about the weather in ", City(v)>>,
                                  w, cell)]

\* a browser or a host with the tool input of the weather tool, or with none
InitWeather ==
  /\ Init
  /\ component = WeatherComponent
  /\ openai # Undefined => openai.globals.widgetState = Undefined

\* a click on "Get 7-Day Forecast": the button is on the page and enabled
FetchForecast ==
  LET page == WeatherWidget(view, loading, forecast)
      h == handleFetchForecast(view, openai, localState, loading, forecast)
  IN /\ mounted
     /\ ~dirty
     /\ page.actions
     /\ ~page.disabled
     /\ Len(inflight) + Len(h.r.pending) <= MaxForecastCalls
     /\ loading' = h.loading
     /\ forecast' = h.forecast
     /\ inflight' = inflight \o h.r.pending
     /\ dirty' = ~h.alert
     /\ lastOp' = Op("handleFetchForecast", Undefined,
                     IF h.alert THEN "alert" ELSE h.r.outcome,
                     h.r.error, Undefined, h.r.calls, {})
     /\ UNCHANGED <<openai, component, mounted, snap, view, localState, listeners,
                    gen, removed, hostSteps, counterVars, clientVars, instanceVars>>

\* a click on "Ask for More Info": the button is on the page
AskMore ==
  LET page == WeatherWidget(view, loading, forecast)
      h == handleAskMore(view, openai, localState)
  IN /\ mounted
     /\ ~dirty
     /\ page.actions
     /\ Len(inflight) + Len(h.r.pending) <= MaxForecastCalls
     /\ inflight' = inflight \o h.r.pending
     /\ lastOp' = Op("handleAskMore", Undefined,
                     IF h.alert THEN "alert" ELSE h.r.outcome,
                     h.r.error, Undefined, h.r.calls, {})
     /\ UNCHANGED <<openai, component, mounted, snap, view, localState, dirty,
                    listeners, gen, removed, hostSteps, exampleVars>>

\* the host settles a promise of the widget; handleFetchForecast resumes
\* behind a settled get-forecast call
ForecastSettle ==
  \E i \in 1..Len(inflight) : \E o \in {"fulfilled", "rejected"} :
    \E v \in (IF o = "rejected" THEN {Undefined}
              ELSE IF inflight[i].method = "callTool" THEN ForecastResponses
              ELSE {Undefined}) :
      /\ Settles(i, o, v)
      /\ IF inflight[i].method = "callTool"
         THEN /\ loading' = AfterForecast(o, v).loading
              /\ forecast' = AfterForecast(o, v).forecast
              /\ dirty' = TRUE
              /\ UNCHANGED <<counterVars, clientVars, instanceVars>>
         ELSE UNCHANGED <<dirty, exampleVars>>

\* the weather widget under a host that settles its calls and may go away
NextWeather == \/ Mount \/ Render \/ FetchForecast \/ AskMore \/ ForecastSettle
               \/ HostDelete

SpecWeather == InitWeather /\ [][NextWeather]_vars

(***************************************************************************)
(* The inline counter widget of examples/react-widget/src/index.ts         *)
(***************************************************************************)
\* clicks on +1, and on -1, between two resets
MaxClicks == 4

\* the tool inputs the counter page is loaded with
CounterInputs ==
  {Undefined, Obj(EmptyMapping), Obj([initialCount |-> 0]),
   Obj([initialCount |-> 3]), Obj([initialCount |-> 10])}

\* function updateCount() { countEl.textContent = count; }
updateCount(c) == NumberToString(c)

\* the page after its script ran: props, count, updateCount(); the page loads
\* neither the bridge nor the other examples, whose variables stay as they are
InitCounter ==
  /\ InitBridge
  /\ openai = Undefined
  /\ component = WeatherComponent
  /\ loading = FALSE
  /\ forecast = Null
  /\ sessionId = Null
  /\ fetches = <<>>
  /\ sibling = FALSE
  /\ siblingGen = 2
  /\ \E toolInput \in CounterInputs : props = CounterProps(toolInput)
  /\ count = InitialCount(props)
  /\ countEl = updateCount(count)
  /\ ups = 0
  /\ downs = 0

\* onclick="increment()": count++; updateCount()
increment ==
  /\ ups < MaxClicks
  /\ count' = count + 1
  /\ countEl' = updateCount(count')
  /\ ups' = ups + 1
  /\ lastOp' = Op("increment", Undefined, "returned", NoError, Undefined, <<>>, {})
  /\ UNCHANGED <<openai, component, mounted, snap, view, localState, dirty, listeners,
                 gen, removed, inflight, hostSteps, widgetVars, clientVars, instanceVars, props, downs>>

\* onclick="decrement()": count--; updateCount()
decrement ==
  /\ downs < MaxClicks
  /\ count' = count - 1
  /\ countEl' = updateCount(count')
  /\ downs' = downs + 1
  /\ lastOp' = Op("decrement", Undefined, "returned", NoError, Undefined, <<>>, {})
  /\ UNCHANGED <<openai, component, mounted, snap, view, localState, dirty, listeners,
                 gen, removed, inflight, hostSteps, widgetVars, clientVars, instanceVars, props, ups>>

\* onclick="reset()": count = props.initialCount || 0; updateCount()
reset ==
  /\ count' = InitialCount(props)
  /\ countEl' = updateCount(count')
  /\ ups' = 0
  /\ downs' = 0
  /\ lastOp' = Op("reset", Undefined, "returned", NoError, Undefined, <<>>, {})
  /\ UNCHANGED <<openai, component, mounted, snap, view, localState, dirty, listeners,
                 gen, removed, inflight, hostSteps, widgetVars, clientVars, instanceVars, props>>

NextCounter == increment \/ decrement \/ reset

SpecCounter == InitCounter /\ [][NextCounter]_vars

(***************************************************************************)
(* mcpRequest of examples/react-widget/scripts/test-manual.ts              *)
(***************************************************************************)
\* requests whose fetch has not returned
MaxFetches == 2

RequestMethods == {"initialize", "tools/list"}

\* what response.headers.get("MCP-Session-Id") returns: null without the header
SessionHeaders == {Null, Str("s1"), Str("s2")}

\* if (v) for a string | null
Truthy(v) == v # Null /\ v # Undefined /\ v # Str("")

\* the headers of a request: MCP-Session-Id is added if (sessionId)
Headers(sid) ==
  LET base == [h \in {"Content-Type", "MCP-Protocol-Version"} |->
                 IF h = "Content-Type" THEN Str("application/json")
                 ELSE Str("2025-06-18")]
  IN IF Truthy(sid) THEN base @@ ("MCP-Session-Id" :> sid) ELSE base

\* a client that takes the session id of every response
CaptureLatest(current, sid) == IF Truthy(sid) THEN sid ELSE current

\* if (!sessionId) { const sid = ...; if (sid) sessionId = sid }
Capture(current, sid) ==
  IF ~Truthy(current) /\ Truthy(sid) THEN sid ELSE current

\* the script before its first request; it runs outside a browser, so the
\* bridge and the widgets stay as they start
InitClient ==
  /\ InitBridge
  /\ openai = Undefined
  /\ component = WeatherComponent
  /\ InitExamples

\* mcpRequest(method) up to its fetch
mcpRequestSend ==
  \E method \in RequestMethods :
    LET request == [method |-> method, headers |-> Headers(sessionId)]
    IN /\ Len(fetches) < MaxFetches
       /\ fetches' = Append(fetches, request)
       /\ lastOp' = Op("mcpRequest", method, "pending", NoError, Undefined,
                       <<request>>, {})
       /\ UNCHANGED <<openai, component, mounted, snap, view, localState, dirty,
                      listeners, gen, removed, inflight, hostSteps, widgetVars,
                      counterVars, instanceVars, sessionId>>

\* a fetch returns a response, with or without the session header, and
\* mcpRequest goes on behind its await; or the fetch fails and mcpRequest throws
mcpRequestReceive ==
  \E i \in 1..Len(fetches) : \E o \in {"fulfilled", "rejected"} :
    \E sid \in (IF o = "fulfilled" THEN SessionHeaders ELSE {Null}) :
      /\ fetches' = RemoveAt(fetches, i)
      /\ sessionId' = IF o = "fulfilled" THEN Capture(sessionId, sid) ELSE sessionId
      /\ lastOp' = Op("response", [request |-> fetches[i], sid |-> sid], o,
                      IF o = "rejected" THEN HostFailure ELSE NoError,
                      Undefined, <<>>, {})
      /\ UNCHANGED <<openai, component, mounted, snap, view, localState, dirty,
                     listeners, gen, removed, inflight, hostSteps, widgetVars,
                     counterVars, instanceVars>>

NextClient == mcpRequestSend \/ mcpRequestReceive

SpecClient == InitClient /\ [][NextClient]_vars

Next ==
  \/ Mount
  \/ Render
  \/ Unmount
  \/ CallTool
  \/ SendFollowUpMessage
  \/ OpenExternal
  \/ RequestDisplayMode
  \/ SetState
  \/ HostDispatch
  \/ HostAssign
  \/ HostInstall
  \/ HostDelete
  \/ HostSettle

Spec == Init /\ [][Next]_vars

\* the component and its actions against a host that only settles its promises
NextActions ==
  \/ Mount
  \/ Render
  \/ Unmount
  \/ CallTool
  \/ SendFollowUpMessage
  \/ OpenExternal
  \/ RequestDisplayMode
  \/ SetState
  \/ HostSettle

SpecActions == Init /\ [][NextActions]_vars

\* the component's subscriptions against a host that changes and broadcasts
NextGlobals ==
  \/ Mount
  \/ Render
  \/ Unmount
  \/ HostDispatch
  \/ HostAssign
  \/ HostInstall
  \/ HostDelete

SpecGlobals == Init /\ [][NextGlobals]_vars

\* the host changes and announces its widgetState only
HostAssignState == HostAssignIn({"widgetState"})

HostDispatchState == HostDispatchOf({d \in Details : DOMAIN d \subseteq {"widgetState"}})

\* the host changes and announces its theme only
HostAssignTheme == HostAssignIn({"theme"})

HostDispatchTheme == HostDispatchOf({d \in Details : DOMAIN d \subseteq {"theme"}})

\* a useWidget component without defaults, in a page without a host or in a
\* host that has set no field but perhaps widgetState
InitMirror ==
  /\ Init
  /\ component = [hook |-> "useWidget", defaultProps |-> Undefined,
                  defaultState |-> Undefined]
  /\ openai # Undefined =>
       /\ openai.methods \in {Methods, {}}
       /\ openai.globals.toolInput = Undefined

\* the closures a render of the second component hands to addEventListener
SiblingHandlers(g) == HandlersOf(g)

\* the second component's first render: its five useOpenAiGlobal subscribe
SiblingMount ==
  /\ ~sibling
  /\ sibling' = TRUE
  /\ siblingGen' = 5 - siblingGen
  /\ listeners' = subscribeAll(listeners, SiblingHandlers(5 - siblingGen))
  /\ removed' = removed \ SiblingHandlers(5 - siblingGen)
  /\ UNCHANGED <<openai, component, mounted, snap, view, localState, dirty, gen,
                 inflight, hostSteps, lastOp, widgetVars, counterVars, clientVars>>

\* a re-render of the second component: the old closures are removed and
\* the closures of this render are registered
SiblingRender ==
  /\ sibling
  /\ siblingGen' = 5 - siblingGen
  /\ listeners' = subscribeAll(unsubscribeAll(listeners, SiblingHandlers(siblingGen)),
                               SiblingHandlers(5 - siblingGen))
  /\ removed' = (removed \cup SiblingHandlers(siblingGen))
                   \ SiblingHandlers(5 - siblingGen)
  /\ UNCHANGED <<openai, component, mounted, snap, view, localState, dirty, gen,
                 inflight, hostSteps, lastOp, widgetVars, counterVars, clientVars,
                 sibling>>

\* the second component is unmounted: its five cleanups run
SiblingUnmount ==
  /\ sibling
  /\ sibling' = FALSE
  /\ listeners' = unsubscribeAll(listeners, SiblingHandlers(siblingGen))
  /\ removed' = removed \cup SiblingHandlers(siblingGen)
  /\ UNCHANGED <<openai, component, mounted, snap, view, localState, dirty, gen,
                 inflight, hostSteps, lastOp, widgetVars, counterVars, clientVars,
                 siblingGen>>

\* two components that call useWidget in one page
NextInstances == \/ Mount \/ Render \/ Unmount \/ SetState \/ HostSettle
                 \/ SiblingMount \/ SiblingRender \/ SiblingUnmount

SpecInstances == InitMirror /\ [][NextInstances]_vars

\* the state mirror next to the host's changes of widgetState
NextMirror == \/ Mount \/ Render \/ Unmount \/ SetState \/ HostSettle
              \/ HostAssignState \/ HostDispatchState

SpecMirror == InitMirror /\ [][NextMirror]_vars

\* a tool call in flight next to the host's changes of theme
NextInflight == \/ Mount \/ Render \/ Unmount \/ CallTool \/ HostSettle
                \/ HostAssignTheme \/ HostDispatchTheme

SpecInflight == InitMirror /\ [][NextInflight]_vars

\* the four actions next to a host that appears, changes its methods or goes
NextCapability == \/ Mount \/ CallTool \/ SendFollowUpMessage \/ OpenExternal
                  \/ RequestDisplayMode \/ HostSettle \/ HostInstall \/ HostDelete

SpecCapability == InitMirror /\ [][NextCapability]_vars

(***************************************************************************)
(* Properties                                                              *)
(***************************************************************************)
\* the value setState(arg) is to store when the mirror holds prev
NewValue(arg, prev) ==
  IF arg.kind = "value" THEN arg.value
  ELSE IF prev = Null THEN Num(1) ELSE Num(prev.val + 1)

\* C1: a delegating action (callTool, sendFollowUpMessage, openExternal,
\* requestDisplayMode) invoked while window.openai or that host method is
\* absent fails with HostUnavailable, calls no host method, and leaves the
\* state mirror, the rendered result and the host untouched.
C1_AbsentActionFails ==
  [][(/\ lastOp' # lastOp
      /\ lastOp'.op \in Actions
      /\ ~HasMethod(openai, lastOp'.op))
       => /\ lastOp'.outcome \in {"rejected", "throws"}
          /\ lastOp'.error = HostUnavailable(lastOp'.op)
          /\ lastOp'.calls = <<>>
          /\ UNCHANGED <<localState, view, snap, inflight, openai>>]_vars

\* host absent, requestDisplayMode("fullscreen") was rejected, displayMode is
\* still the fallback
C1_Witness ==
  /\ openai = Undefined
  /\ lastOp.op = "requestDisplayMode"
  /\ lastOp.arg = Str("fullscreen")
  /\ lastOp.outcome = "rejected"
  /\ lastOp.error = HostUnavailable("requestDisplayMode")
  /\ view.displayMode = Str("inline")

\* C2: setState(5) followed at once by setState(prev => prev + 1) leaves 6 in
\* the mirror.
C2_UpdaterSeesLatest ==
  [][(/\ lastOp.op = "setState"
      /\ lastOp.arg = Value(Num(5))
      /\ lastOp'.op = "setState"
      /\ lastOp'.arg = Updater)
       => localState' = Num(6)]_vars

\* the mount of useWidgetState([]) in a host that persists state and has no
\* widgetState yet
C3_Case ==
  /\ component.hook = "useWidgetState"
  /\ component.defaultState = EmptyArray
  /\ HasMethod(openai, "setWidgetState")
  /\ openai.globals.widgetState = Undefined

\* C3: in that case the mount puts [] in the mirror and calls setWidgetState
\* once, with []; no later render calls it again.
C3_DefaultStateOnce ==
  C3_Case =>
    /\ lastOp.op = "mount" =>
         /\ localState = EmptyArray
         /\ Len(lastOp.calls) = 1
         /\ lastOp.calls[1].method = "setWidgetState"
         /\ lastOp.calls[1].arg = EmptyArray
    /\ lastOp.op = "render" => lastOp.calls = <<>>

\* the default reached the rendered state: mounted, written, rendered again
C3_Witness ==
  /\ C3_Case
  /\ lastOp.op = "render"
  /\ view.state = EmptyArray
  /\ inflight = <<Pending("setWidgetState", EmptyArray, "pending")>>

\* C4: a render with window.openai absent returns isAvailable false, the
\* default props (or an empty mapping), theme light, displayMode inline and
\* locale en.
C4_AbsentHostFallbacks ==
  (lastOp.op \in {"mount", "render"} /\ openai = Undefined) =>
    /\ view.isAvailable = FALSE
    /\ view.props = (IF component.defaultProps = Undefined
                     THEN Obj(EmptyMapping)
                     ELSE component.defaultProps)
    /\ view.theme = Str("light")
    /\ view.displayMode = Str("inline")
    /\ view.locale = Str("en")

\* a re-render after the host went away, over a snapshot that had a theme
C4_Witness ==
  /\ lastOp.op = "render"
  /\ openai = Undefined
  /\ hostSteps > 0
  /\ component.defaultProps = Obj(WeatherDefaults)
  /\ view.props = Obj(WeatherDefaults)
  /\ view.isAvailable = FALSE

Present(v) == v # Undefined /\ v # Null

\* C5: props is the host's toolInput as it is when toolInput is present,
\* else the default the caller passed, else an empty mapping.
C5_PropsProjection ==
  lastOp.op \in {"mount", "render"} =>
    view.props =
      (IF Present(getSnapshot(openai, "toolInput"))
       THEN openai.globals.toolInput
       ELSE IF component.defaultProps # Undefined
            THEN component.defaultProps
            ELSE Obj(EmptyMapping))

\* a toolInput that lacks keys of the default is returned unmerged
C5_Witness ==
  /\ lastOp.op = "render"
  /\ component.defaultProps = Obj(WeatherDefaults)
  /\ openai # Undefined
  /\ openai.globals.toolInput = Obj(PartialInput)
  /\ view.props = Obj(PartialInput)

\* C6: a listener that was unsubscribed is not registered on window, and no
\* broadcast invokes its callback.
C6_UnsubscribeRemoves ==
  /\ listeners \cap removed = {}
  /\ lastOp.invoked \cap removed = {}

\* a broadcast for theme after the component was unmounted invoked nothing
C6_Witness ==
  /\ ~mounted
  /\ Handler("theme", gen) \in removed
  /\ lastOp.op = "dispatchEvent"
  /\ handleSetGlobal("theme", lastOp.arg)
  /\ lastOp.invoked = {}
  /\ listeners = {}

\* C7: a broadcast invokes only subscribers of fields its payload contains.
C7_OnlyAnnouncedFields ==
  lastOp.op = "dispatchEvent" =>
    \A h \in lastOp.invoked : h.key \in DOMAIN lastOp.arg

\* a broadcast of displayMode alone, with theme subscribed: theme not invoked
C7_Witness ==
  /\ lastOp.op = "dispatchEvent"
  /\ DOMAIN lastOp.arg = {"displayMode"}
  /\ Handler("theme", gen) \in listeners
  /\ lastOp.invoked = {Handler("displayMode", gen)}

\* C8 as stated: every subscriber of a field is invoked by every broadcast
\* that announces the field, whatever the announced value.
C8_EveryAnnouncement ==
  lastOp.op = "dispatchEvent" =>
    \A h \in listeners : h.key \in DOMAIN lastOp.arg => h \in lastOp.invoked

\* C8 amended: every subscriber of a field is invoked by every broadcast that
\* announces the field with a value other than undefined, also when that
\* value equals the one already rendered.
C8_EveryDefinedAnnouncement ==
  lastOp.op = "dispatchEvent" =>
    \A h \in listeners :
      (h.key \in DOMAIN lastOp.arg /\ lastOp.arg[h.key] # Undefined)
        => h \in lastOp.invoked

\* a broadcast announced the theme that is already rendered, and the theme
\* subscriber was invoked
C8_Witness ==
  /\ lastOp.op = "dispatchEvent"
  /\ mounted
  /\ "theme" \in DOMAIN lastOp.arg
  /\ lastOp.arg.theme = Str("dark")
  /\ snap.theme = Str("dark")
  /\ getSnapshot(openai, "theme") = Str("dark")
  /\ Handler("theme", gen) \in lastOp.invoked

\* C9: with setWidgetState exposed, setState stores the new value in the
\* mirror, then calls setWidgetState once with that value, and its promise
\* settles when and as the host's promise does.
C9_WriteThenPersist ==
  /\ (lastOp.op = "setState" /\ HasMethod(openai, "setWidgetState")) =>
       /\ localState = NewValue(lastOp.arg, view.state)
       /\ Len(lastOp.calls) = 1
       /\ lastOp.calls[1].method = "setWidgetState"
       /\ lastOp.calls[1].arg = localState
       /\ lastOp.calls[1].mirror = localState
       /\ lastOp.outcome = "pending"
  /\ \A i \in 1..Len(inflight) :
       inflight[i].method = "setWidgetState" => inflight[i].caller = "pending"
  /\ (lastOp.op = "settle" /\ lastOp.arg.call.method = "setWidgetState") =>
       lastOp.outcome = lastOp.arg.host

\* the host has just resolved the promise of a setState(5)
C9_Witness ==
  /\ lastOp.op = "settle"
  /\ lastOp.arg.call = Pending("setWidgetState", Num(5), "pending")
  /\ lastOp.arg.host = "fulfilled"
  /\ lastOp.outcome = "fulfilled"
  /\ localState = Num(5)

\* C10: with window.openai or setWidgetState absent, setState stores the new
\* value in the mirror, calls no host method and completes without error.
C10_LocalOnlyFallback ==
  (lastOp.op = "setState" /\ ~HasMethod(openai, "setWidgetState")) =>
    /\ lastOp.outcome = "fulfilled"
    /\ lastOp.error = NoError
    /\ lastOp.calls = <<>>
    /\ localState = NewValue(lastOp.arg, view.state)
    /\ \A i \in 1..Len(inflight) : inflight[i].method # "setWidgetState"

\* no host at all, setState(5) completed and the mirror holds 5
C10_Witness ==
  /\ openai = Undefined
  /\ lastOp.op = "setState"
  /\ lastOp.arg = Value(Num(5))
  /\ lastOp.outcome = "fulfilled"
  /\ localState = Num(5)
  /\ inflight = <<>>

\* C11: when the host rejects the promise of a delegated callTool,
\* sendFollowUpMessage, requestDisplayMode or setState, the caller's promise
\* rejects with the host's own error, and the mirror keeps the value an
\* optimistic setState wrote.
C11_HostFailurePropagates ==
  [][(/\ lastOp' # lastOp
      /\ lastOp'.op = "settle"
      /\ lastOp'.arg.host = "rejected")
       => /\ lastOp'.outcome = "rejected"
          /\ lastOp'.error = lastOp'.arg.error
          /\ lastOp'.error = HostFailure
          /\ localState' = localState]_vars

\* the host rejected the write of setState(5) and the mirror still holds 5
C11_Witness ==
  /\ mounted
  /\ lastOp.op = "settle"
  /\ lastOp.arg.call = Pending("setWidgetState", Num(5), "pending")
  /\ lastOp.arg.host = "rejected"
  /\ lastOp.outcome = "rejected"
  /\ lastOp.error = HostFailure
  /\ localState = Num(5)

\* the mirror agrees with the host's widgetState, null standing for none
InSync == localState = Coalesce(getSnapshot(openai, "widgetState"), Null)

\* a setWidgetState call the host has not settled
WriteInFlight == \E i \in 1..Len(inflight) : inflight[i].method = "setWidgetState"

\* C12 as stated: whenever no setState write is in flight, the mirror equals
\* the host's widgetState.
C12_EqualUnlessWriting == (mounted /\ ~WriteInFlight) => InSync

\* C12: the mirror equals the host's widgetState after a mount without default
\* state, and the two come to differ only by a setState call (the default-state
\* initialisation included) or by a step of the host; no render, settlement or
\* unsubscription makes them differ.
C12_DivergesOnlyByWriteOrHost ==
  [][(mounted' /\ ~InSync' /\ (mounted => InSync))
       => \/ lastOp'.op \in {"setState", "host"}
          \/ lastOp'.op = "mount" /\ lastOp'.calls # <<>>]_vars

\* the host fulfilled the write of setState(5) without taking the value over:
\* no write is in flight and the mirror differs from the host's widgetState
C12_Witness ==
  /\ mounted
  /\ lastOp.op = "settle"
  /\ lastOp.arg.call = Pending("setWidgetState", Num(5), "pending")
  /\ lastOp.arg.host = "fulfilled"
  /\ ~WriteInFlight
  /\ localState = Num(5)
  /\ getSnapshot(openai, "widgetState") = Undefined

\* C13 as stated: once a notification carrying the host's widgetState has been
\* handled and no re-render is outstanding, the mirror equals that widgetState.
C13_NotificationSyncs ==
  (/\ mounted
   /\ lastOp.op = "dispatchEvent"
   /\ "widgetState" \in DOMAIN lastOp.arg
   /\ lastOp.arg["widgetState"] = getSnapshot(openai, "widgetState")
   /\ ~dirty
   /\ localState = view.state) => InSync

\* C13: the first render returns the host's widgetState, or null without one,
\* as state; a notification that announces a defined widgetState while the
\* host's value differs from the one last rendered schedules a re-render; and a
\* re-render that reads a new, defined widgetState leaves the mirror equal to it.
C13_DefinedChangeSyncs ==
  [][/\ (lastOp' # lastOp /\ lastOp'.op = "mount")
          => view'.state = Coalesce(getSnapshot(openai, "widgetState"), Null)
     /\ (/\ lastOp' # lastOp
         /\ lastOp'.op = "dispatchEvent"
         /\ mounted
         /\ "widgetState" \in DOMAIN lastOp'.arg
         /\ lastOp'.arg["widgetState"] # Undefined
         /\ getSnapshot(openai, "widgetState") # snap.widgetState)
          => dirty'
     /\ (/\ mounted /\ mounted' /\ gen' # gen
         /\ snap'.widgetState # snap.widgetState
         /\ snap'.widgetState # Undefined)
          => localState' = getSnapshot(openai, "widgetState")]_vars

\* a re-render that returned the locally written 1 and then copied the 5 the
\* host had announced
C13_Witness ==
  /\ mounted
  /\ lastOp.op = "render"
  /\ view.state = Num(1)
  /\ getSnapshot(openai, "widgetState") = Num(5)
  /\ localState = Num(5)

C16_HostFieldsFramed ==
  [][/\ openai' # openai => (lastOp' # lastOp /\ lastOp'.op = "host")
     /\ \A i \in DOMAIN lastOp'.calls : lastOp'.calls[i].method \in Methods]_vars

\* setState(5) wrote the mirror and called setWidgetState, and the host's
\* widgetState field is still unset
C16_Witness ==
  /\ mounted
  /\ lastOp.op = "setState"
  /\ lastOp.calls = <<HostCall("setWidgetState", Num(5), Num(5))>>
  /\ localState = Num(5)
  /\ getSnapshot(openai, "widgetState") = Undefined

\* C17: the isAvailable a render returns is true exactly when window.openai
\* exists during that render, whatever methods it has.
C17_AvailableIffPresent ==
  lastOp.op \in {"mount", "render"} => (view.isAvailable <=> openai # Undefined)

\* a render under a host object that has none of the five methods
C17_Witness ==
  /\ lastOp.op \in {"mount", "render"}
  /\ openai # Undefined
  /\ openai.methods = {}
  /\ view.isAvailable

\* the value returned for a field: the host's, or the fallback without one
Projected(k, fallback) ==
  IF getSnapshot(openai, k) # Undefined THEN getSnapshot(openai, k) ELSE fallback

\* C18: under a host, a render returns for each of theme, displayMode and
\* locale the host's value when the host defines the field and light, inline,
\* en when it does not, field by field.
C18_FieldwiseFallback ==
  (lastOp.op \in {"mount", "render"} /\ openai # Undefined) =>
    /\ view.theme = Projected("theme", Str("light"))
    /\ view.displayMode = Projected("displayMode", Str("inline"))
    /\ view.locale = Projected("locale", Str("en"))

\* the host defines theme and locale and no displayMode
C18_Witness ==
  /\ lastOp.op = "render"
  /\ openai # Undefined
  /\ openai.globals.theme = Str("dark")
  /\ openai.globals.displayMode = Undefined
  /\ openai.globals.locale = Str("fr")
  /\ view.theme = Str("dark")
  /\ view.displayMode = Str("inline")
  /\ view.locale = Str("fr")

\* C19: with the host method present, callTool(name, args) calls the host's
\* callTool once with that name and those args, requestDisplayMode(mode) calls
\* the host's with that mode, and the caller's promise fulfils with the very
\* value the host resolves to, a granted mode other than the requested one
\* included.
C19_DelegatesExactly ==
  /\ (lastOp.op = "callTool" /\ HasMethod(openai, "callTool"))
       => /\ Len(lastOp.calls) = 1
          /\ lastOp.calls[1].method = "callTool"
          /\ lastOp.calls[1].arg = [name |-> lastOp.arg.name, args |-> lastOp.arg.args]
  /\ (lastOp.op = "requestDisplayMode" /\ HasMethod(openai, "requestDisplayMode"))
       => /\ Len(lastOp.calls) = 1
          /\ lastOp.calls[1].method = "requestDisplayMode"
          /\ lastOp.calls[1].arg = [mode |-> lastOp.arg]
  /\ (/\ lastOp.op = "settle"
      /\ lastOp.arg.call.method \in {"callTool", "requestDisplayMode"}
      /\ lastOp.arg.host = "fulfilled")
       => /\ lastOp.outcome = "fulfilled"
          /\ lastOp.value = lastOp.arg.value

\* fullscreen was requested, the host granted inline, and the caller got inline
C19_Witness ==
  /\ lastOp.op = "settle"
  /\ lastOp.arg.call = Pending("requestDisplayMode", [mode |-> Str("fullscreen")], "pending")
  /\ lastOp.arg.host = "fulfilled"
  /\ lastOp.arg.value = [mode |-> Str("inline")]
  /\ lastOp.outcome = "fulfilled"
  /\ lastOp.value = [mode |-> Str("inline")]

\* C20 as stated: each of the four actions invoked without its host method
\* throws HostUnavailable out of the call itself.
C20_ThrowsInTheCall ==
  (lastOp.op \in Actions /\ ~HasMethod(openai, lastOp.op))
    => /\ lastOp.outcome = "throws"
       /\ lastOp.error = HostUnavailable(lastOp.op)

\* C20: an action invoked without its host method fails with HostUnavailable
\* in the invoking step, with no host call and nothing left pending:
\* openExternal by throwing out of the call, callTool, sendFollowUpMessage and
\* requestDisplayMode by returning a promise that is already rejected.
C20_FailsAtInvocation ==
  (lastOp.op \in Actions /\ ~HasMethod(openai, lastOp.op))
    => /\ lastOp.error = HostUnavailable(lastOp.op)
       /\ lastOp.outcome = (IF lastOp.op = "openExternal" THEN "throws" ELSE "rejected")
       /\ lastOp.calls = <<>>
       /\ \A i \in 1..Len(inflight) : inflight[i].caller = "pending"

\* a host without callTool: the promise callTool returned is rejected
C20_Witness ==
  /\ openai # Undefined
  /\ ~HasMethod(openai, "callTool")
  /\ lastOp.op = "callTool"
  /\ lastOp.outcome = "rejected"
  /\ lastOp.error = HostUnavailable("callTool")

\* C21: with window.openai absent the weather widget shows the "Standalone
\* Mode" notice and the default props, and its two action buttons are there
\* to be clicked and answer a click with the alert.
C21_StandaloneButtonsAlert ==
  (mounted /\ ~dirty /\ openai = Undefined /\ ~view.isAvailable) =>
    LET page == WeatherWidget(view, loading, forecast)
    IN /\ page.notice
       /\ page.props = Obj(WeatherDefaults)
       /\ page.actions
       /\ handleFetchForecast(view, openai, localState, loading, forecast).alert
       /\ handleAskMore(view, openai, localState).alert

\* the number a string of digits with an optional sign stands for
RECURSIVE DigitsValue(_)
DigitsValue(ds) ==
  IF ds = <<>> THEN 0
  ELSE 10 * DigitsValue(SubSeq(ds, 1, Len(ds) - 1))
       + (CHOOSE d \in 0..9 : DigitChars[d + 1] = ds[Len(ds)])

Displayed(text) ==
  IF text[1] = "-" THEN 0 - DigitsValue(Tail(text)) ELSE DigitsValue(text)

\* the n of the claim: initialCount, 0 when it is missing
LoadedWith ==
  IF "initialCount" \in DOMAIN props.props THEN props.props.initialCount ELSE 0

\* C22: the count on the page is the internal count written out, and the
\* internal count is n plus the +1 clicks minus the -1 clicks since the load or
\* the last Reset; right after Reset the page shows n.
C22_CountFollowsClicks ==
  /\ countEl = NumberToString(count)
  /\ Displayed(countEl) = count
  /\ count = LoadedWith + ups - downs
  /\ lastOp.op = "reset" => Displayed(countEl) = LoadedWith

\* loaded with 10, then Reset after some clicks: the page shows 10 again
C22_Witness ==
  /\ LoadedWith = 10
  /\ lastOp.op = "reset"
  /\ countEl = <<"1", "0">>

\* C23: the session id is the MCP-Session-Id of the first response that has
\* one; once set it never changes; a request sent while it is set carries it
\* in MCP-Session-Id, and a request sent while it is not set has no such
\* header.
C23_SessionIdSticks ==
  [][/\ sessionId # Null => sessionId' = sessionId
     /\ (/\ Len(fetches') < Len(fetches)
         /\ sessionId = Null
         /\ lastOp'.outcome = "fulfilled"
         /\ lastOp'.arg.sid # Null)
          => sessionId' = lastOp'.arg.sid
     /\ (Len(fetches') < Len(fetches) /\ sessionId = Null /\ lastOp'.arg.sid = Null)
          => sessionId' = Null
     /\ Len(fetches') > Len(fetches)
          => LET headers == fetches'[Len(fetches')].headers
             IN IF sessionId # Null
                THEN /\ "MCP-Session-Id" \in DOMAIN headers
                     /\ headers["MCP-Session-Id"] = sessionId
                ELSE "MCP-Session-Id" \notin DOMAIN headers]_vars

\* s1 was captured, a request carrying s1 is under way, and a response that
\* came with s2 has left the session id at s1
C23_Witness ==
  /\ sessionId = Str("s1")
  /\ lastOp.op = "response"
  /\ lastOp.arg.sid = Str("s2")
  /\ Len(fetches) = 1
  /\ fetches[1].headers["MCP-Session-Id"] = Str("s1")

\* C24: a notification does not invoke the handler of a field it carries as
\* undefined, and no step that leaves the host without a widgetState (the
\* field cleared, or window.openai gone) changes the mirror of a mounted
\* component.
C24_UndefinedKeepsMirror ==
  [][/\ (lastOp' # lastOp /\ lastOp'.op = "dispatchEvent")
          => \A h \in listeners :
               (h.key \in DOMAIN lastOp'.arg /\ lastOp'.arg[h.key] = Undefined)
                 => h \notin lastOp'.invoked
     /\ (mounted /\ mounted' /\ getSnapshot(openai', "widgetState") = Undefined)
          => localState' = localState]_vars

\* window.openai is gone, a re-render has read widgetState as undefined, and
\* the mirror still holds the 5 it was mounted with
C24_Witness ==
  /\ mounted
  /\ lastOp.op = "render"
  /\ openai = Undefined
  /\ snap.widgetState = Undefined
  /\ localState = Num(5)

\* C25: under useWidgetState with a default, a mount in a page without
\* setWidgetState (host absent, or present without the method) calls nothing
\* and leaves the mirror at the host's widgetState or null; a mount over a host
\* widgetState that is set leaves that value in the mirror and sends nothing;
\* and no re-render sends or writes the default, also when the mirror is null
\* again.
C25_DefaultOnlyWhenPersistable ==
  (component.hook = "useWidgetState" /\ component.defaultState # Undefined) =>
    /\ (lastOp.op = "mount" /\ ~HasMethod(openai, "setWidgetState"))
         => /\ lastOp.calls = <<>>
            /\ localState = Coalesce(getSnapshot(openai, "widgetState"), Null)
            /\ localState # component.defaultState
    /\ (lastOp.op = "mount" /\ Present(getSnapshot(openai, "widgetState")))
         => /\ lastOp.calls = <<>>
            /\ inflight = <<>>
            /\ localState = getSnapshot(openai, "widgetState")
    /\ lastOp.op = "render"
         => /\ lastOp.calls = <<>>
            /\ view.state # component.defaultState => localState # component.defaultState

\* useWidgetState([]) mounted under a host that has methods but not
\* setWidgetState: the mirror is null
C25_Witness ==
  /\ component.hook = "useWidgetState"
  /\ component.defaultState = EmptyArray
  /\ lastOp.op = "mount"
  /\ openai # Undefined
  /\ ~HasMethod(openai, "setWidgetState")
  /\ getSnapshot(openai, "widgetState") = Undefined
  /\ localState = Null

\* C26: a render returns for every field what window.openai holds when the
\* render reads it, whatever the payload of the notification before it said;
\* a notification by itself changes no returned value; and an assignment the
\* host does not announce schedules no re-render and changes no returned value.
C26_ReadsHostNotPayload ==
  [][/\ (mounted /\ mounted' /\ gen' # gen)
          => /\ \A k \in Keys : snap'[k] = getSnapshot(openai, k)
             /\ view'.theme = Coalesce(getSnapshot(openai, "theme"), Str("light"))
             /\ view'.displayMode
                  = Coalesce(getSnapshot(openai, "displayMode"), Str("inline"))
             /\ view'.locale = Coalesce(getSnapshot(openai, "locale"), Str("en"))
     /\ (lastOp' # lastOp /\ lastOp'.op = "dispatchEvent")
          => view' = view /\ snap' = snap
     /\ (lastOp' # lastOp /\ lastOp'.op = "host")
          => view' = view /\ snap' = snap /\ dirty' = dirty]_vars

\* the host holds theme light and has announced theme dark: the payload and
\* window.openai disagree, the rendered theme is still the one of the mount,
\* and a re-render is scheduled
C26_Witness ==
  /\ mounted
  /\ lastOp.op = "dispatchEvent"
  /\ DetailValue(lastOp.arg, "theme") = Str("dark")
  /\ getSnapshot(openai, "theme") = Str("light")
  /\ view.theme = Str("dark")
  /\ dirty

\* C27: a call of callTool, sendFollowUpMessage, openExternal or
\* requestDisplayMode, and the settlement of the promise it returned, leave the
\* mirror, the values of the last render and the snapshots as they are and
\* schedule no re-render, whether the call was delegated or not.
C27_ActionsFrameMirror ==
  [][(/\ lastOp' # lastOp
      /\ \/ lastOp'.op \in Actions
         \/ lastOp'.op = "settle" /\ lastOp'.arg.call.method \in Actions)
       => /\ localState' = localState
          /\ view' = view
          /\ snap' = snap
          /\ dirty' = dirty]_vars

\* the host granted fullscreen; the component still returns displayMode
\* inline, the host having announced nothing
C27_Witness ==
  /\ mounted
  /\ lastOp.op = "settle"
  /\ lastOp.arg.call.method = "requestDisplayMode"
  /\ lastOp.arg.host = "fulfilled"
  /\ lastOp.value = [mode |-> Str("fullscreen")]
  /\ view.displayMode = Str("inline")
  /\ ~dirty

\* C28: an action is delegated exactly when window.openai has its method
\* at the moment of the call, and fails with HostUnavailable otherwise,
\* whatever isAvailable the last render returned and whatever the host was at
\* mount.
C28_CapabilityAtCall ==
  [][(lastOp' # lastOp /\ lastOp'.op \in Actions)
       => IF HasMethod(openai, lastOp'.op)
          THEN /\ Len(lastOp'.calls) = 1
               /\ lastOp'.calls[1].method = lastOp'.op
               /\ lastOp'.outcome \in {"pending", "returned"}
          ELSE /\ lastOp'.calls = <<>>
               /\ lastOp'.error = HostUnavailable(lastOp'.op)]_vars

\* mounted without a host, so isAvailable is false; the host appeared and
\* callTool was delegated to it
C28_Witness ==
  /\ mounted
  /\ ~view.isAvailable
  /\ lastOp.op = "callTool"
  /\ HasMethod(openai, "callTool")
  /\ Len(lastOp.calls) = 1
  /\ lastOp.outcome = "pending"

\* the get-forecast calls the host has not settled
ForecastCalls == {i \in 1..Len(inflight) : inflight[i].method = "callTool"}

\* C29: loading is true exactly while a get-forecast call is open at the
\* host, there is never more than one, and the step in which the host settles
\* it leaves loading false, with the forecast text of the response when it
\* resolves and "Error fetching forecast" when it rejects.
C29_LoadingWhileInFlight ==
  [][/\ loading' <=> ForecastCalls' # {}
     /\ Cardinality(ForecastCalls') <= 1
     /\ (/\ Len(inflight') < Len(inflight)
         /\ lastOp'.op = "settle"
         /\ lastOp'.arg.call.method = "callTool")
          => /\ loading
             /\ ~loading'
             /\ forecast' = IF lastOp'.arg.host = "rejected"
                            THEN ErrorFetching
                            ELSE ForecastText(lastOp'.arg.value)]_vars

\* the host rejected the forecast call: loading is false again and the
\* forecast reads "Error fetching forecast", a follow-up message still open
C29_Witness ==
  /\ lastOp.op = "settle"
  /\ lastOp.arg.call.method = "callTool"
  /\ lastOp.arg.host = "rejected"
  /\ ~loading
  /\ forecast = Str("Error fetching forecast")
  /\ Len(inflight) = 1

\* the components that call useWidget and are mounted
Instances == (IF mounted THEN 1 ELSE 0) + (IF sibling THEN 1 ELSE 0)

\* C30: a mounted component holds one registered listener for each of
\* toolInput, widgetState, theme, displayMode and locale, the listeners on
\* window number five times the mounted components, and none is left once
\* every component is unmounted.
C30_FivePerInstance ==
  /\ Cardinality(Keys) = 5
  /\ mounted => \A k \in Keys : Handler(k, gen) \in listeners
  /\ sibling => \A k \in Keys : Handler(k, siblingGen) \in listeners
  /\ Cardinality(listeners) = 5 * Instances
  /\ Instances = 0 => listeners = {}

\* both components mounted and re-rendered, then both unmounted: ten
\* closures were removed and nothing is registered
C30_Witness ==
  /\ lastOp.op = "unmount"
  /\ Instances = 0
  /\ Cardinality(removed) = 10
  /\ listeners = {}

====
